---- MODULE Spec2Model ----
(***************************************************************************)
(* Model of hardware-integration-example.cpp: the ESP32 sketch of the      *)
(* Smart Bus Tracking System.  setup() waits for the WiFi link and runs    *)
(* the API self-test once; loop() reads the simulated GPS and sensors,     *)
(* posts telemetry, counts the iteration, posts a heartbeat every tenth    *)
(* iteration and sleeps.  The WiFi link is the environment: it may go up   *)
(* or down between any two steps of the sketch.                            *)
(*                                                                         *)
(* Units.  latitude and longitude are held in 1e-5 degrees (the grain of   *)
(* random(-50, 50) / 100000.0).  fuelLevel is held in consumption steps    *)
(* of 0.01 (one readSensorData call burns one step).                       *)
(***************************************************************************)
EXTENDS Integers, FiniteSets, Sequences, TLC

\* ------------------------------------------------------------------ bounds
\* Loop iterations are numbered exactly up to MaxIter; the number saturates
\* there (MaxIter reads "MaxIter or more") while the loop itself runs on.
MaxIter == 31

\* The tank at power-on, in consumption steps.  The sketch starts at 100.0,
\* i.e. 10000 steps of 0.01; the model starts at MaxFuel steps so that the
\* clamp at 0 is reached inside the explored iterations.
MaxFuel == 15

\* ------------------------------------------------------- program constants
\* if (++updateCount >= 10)
HeartbeatEvery == 10
\* if (httpResponseCode == 201)
TelemetryCreated == 201
\* if (httpResponseCode == 200)
HeartbeatOk == 200
\* static float baseLat = 11.3410; static float baseLng = 77.7172; (1e-5 deg)
baseLat == 1134100
baseLng == 7771720
\* float engineTemp = 75.0; engineTemp = 75 + random(-5, 15);
baseTemp == 75

Max(a, b) == IF a > b THEN a ELSE b

\* Arduino random(lo, hi) returns a value in lo .. hi-1.
\* The draws of one readGPSData call (offsets of latitude and longitude from
\* random(-50, 50), speed from random(20, 60), heading from random(0, 360))
\* and of one readSensorData call (passengers from random(0, 45), offset of
\* the temperature from random(-5, 15)): two samples of each, taken at the
\* ends of the ranges.
GPSDraws ==
  { [lat |-> -50, lng |-> 49, speed |-> 20, heading |-> 359],
    [lat |-> 49, lng |-> -50, speed |-> 59, heading |-> 0] }

SensorDraws ==
  { [passengers |-> 44, temp |-> -5],
    [passengers |-> 1, temp |-> 14] }

\* Result codes of HTTPClient GET/POST: a positive HTTP status when a
\* response came back, a negative library error (-1 connection refused)
\* when none did.
ResponseCodes == {-1, 200, 201, 401}

\* Response bodies the server may return, as the parsed JSON document
\* (success, message) next to the raw text.
ResponseBodies ==
  { [raw |-> "{success:true,message:ok}", success |-> TRUE, message |-> "ok"],
    [raw |-> "{success:false,message:bad}", success |-> FALSE, message |-> "bad"] }

NoBody == [raw |-> "", success |-> FALSE, message |-> ""]

VARIABLES
  pc,              \* position of the sketch in setup() / loop() (29-63)
  linkUp,          \* WiFi.status() == WL_CONNECTED (35, 111)
  \* the globals of lines 21-27
  latitude, longitude, speed, heading, passengerCount, fuelLevel, engineTemp,
  updateCount,     \* static int updateCount of loop() (56)
  iter,            \* number of the current loop() iteration, from 1
  sensorCalls,     \* readGPSData/readSensorData calls in this iteration
  telPosts,        \* telemetry POST attempts (137) in this iteration
  hbPosts,         \* heartbeat POST attempts (178) in this iteration
  statusGets,      \* GETs of /api/hardware/status (71) since power-on
  apiCode,         \* httpResponseCode of the self-test GET (71)
  apiTest,         \* what testAPIConnection printed (75, 78)
  telCode,         \* httpResponseCode of this iteration's telemetry POST
  telOutcome,      \* what sendTelemetryData reported in this iteration:
                   \* "LinkUnavailable" (112), "Accepted" (141),
                   \* "RejectedByServer" (150-153), "None" before it ran
  telMessage,      \* the server message it printed as confirmation (147)
  telBody,         \* the raw body it printed as error (153)
  hbOutcome,       \* what sendHeartbeat reported in this iteration (180-184)
  hbLink,          \* link status at the moment of the heartbeat POST
  linkChecked,     \* the previous step of the sketch was a WiFi.status()
                   \* check that reported WL_CONNECTED
  accepted         \* a telemetry send was accepted in the current run of
                   \* HeartbeatEvery iterations

shared == <<latitude, longitude, speed, heading, passengerCount, fuelLevel,
            engineTemp>>
tick == <<sensorCalls, telPosts, hbPosts>>
selfTest == <<statusGets, apiCode, apiTest>>
telReport == <<telCode, telOutcome, telMessage, telBody>>
vars == <<pc, linkUp, shared, updateCount, iter, tick, selfTest,
          telReport, hbOutcome, hbLink, linkChecked, accepted>>

Init ==
  /\ pc = "connecting"
  /\ linkUp = FALSE
  /\ latitude = 0 /\ longitude = 0 /\ speed = 0 /\ heading = 0
  /\ passengerCount = 0
  /\ fuelLevel = MaxFuel
  /\ engineTemp = baseTemp
  /\ updateCount = 0
  /\ iter = 0
  /\ sensorCalls = 0 /\ telPosts = 0 /\ hbPosts = 0
  /\ statusGets = 0
  /\ apiCode = 0
  /\ apiTest = "none"
  /\ telCode = 0 /\ telOutcome = "None" /\ telMessage = "" /\ telBody = ""
  /\ hbOutcome = "None"
  /\ hbLink = "none"
  /\ linkChecked = FALSE
  /\ accepted = FALSE

\* What the HTTP library can return: without a link no response arrives.
NetResult == IF linkUp THEN ResponseCodes ELSE {c \in ResponseCodes : c <= 0}

\* The WiFi link goes down or comes back, at any time.
LinkChange ==
  /\ linkUp' = ~linkUp
  /\ UNCHANGED <<pc, shared, updateCount, iter, tick, selfTest,
                 telReport, hbOutcome, hbLink, linkChecked, accepted>>

\* setup(): while (WiFi.status() != WL_CONNECTED) delay(1000);
setup ==
  /\ pc = "connecting"
  /\ linkUp
  /\ pc' = "testAPI"
  /\ linkChecked' = TRUE
  /\ UNCHANGED <<linkUp, shared, updateCount, iter, tick, selfTest,
                 telReport, hbOutcome, hbLink, accepted>>

\* Mutant: only HTTP 200 counts as reachable.
apiReachable_only200(code) == code = 200

\* testAPIConnection(): if (httpResponseCode > 0) SUCCESS else FAILED
apiReachable(code) == code > 0

\* testAPIConnection(), then setup() returns and loop() is entered.
testAPIConnection ==
  /\ pc = "testAPI"
  /\ \E code \in NetResult :
       /\ apiCode' = code
       /\ apiTest' = IF apiReachable(code) THEN "SUCCESS" ELSE "FAILED"
  /\ statusGets' = statusGets + 1
  /\ pc' = "readGPS"
  /\ iter' = 1
  /\ linkChecked' = FALSE
  /\ UNCHANGED <<linkUp, shared, updateCount, tick, telReport, hbOutcome,
                 hbLink, accepted>>

readGPSData ==
  /\ pc = "readGPS"
  /\ \E d \in GPSDraws :
       /\ latitude' = baseLat + d.lat
       /\ longitude' = baseLng + d.lng
       /\ speed' = d.speed
       /\ heading' = d.heading
  /\ sensorCalls' = sensorCalls + 1
  /\ pc' = "readSensor"
  /\ linkChecked' = FALSE
  /\ UNCHANGED <<linkUp, passengerCount, fuelLevel, engineTemp, updateCount,
                 iter, telPosts, hbPosts, selfTest, telReport,
                 hbOutcome, hbLink, accepted>>

\* Mutant: the subtraction without the clamp.
consumeFuel_noClamp(f) == f - 1

\* fuelLevel = max(0.0, fuelLevel - 0.01)
consumeFuel(f) == Max(0, f - 1)

readSensorData ==
  /\ pc = "readSensor"
  /\ \E d \in SensorDraws :
       /\ passengerCount' = d.passengers
       /\ engineTemp' = baseTemp + d.temp
  /\ fuelLevel' = consumeFuel(fuelLevel)
  /\ sensorCalls' = sensorCalls + 1
  /\ pc' = "telemetry"
  /\ linkChecked' = FALSE
  /\ UNCHANGED <<linkUp, latitude, longitude, speed, heading, updateCount,
                 iter, telPosts, hbPosts, selfTest, telReport,
                 hbOutcome, hbLink, accepted>>

\* Mutant: a send skipped for link-down ends the iteration uncounted.
sendTelemetryData_check_skipsCount ==
  /\ pc = "telemetry"
  /\ IF linkUp
       THEN /\ pc' = "post"
            /\ linkChecked' = TRUE
            /\ UNCHANGED telReport
       ELSE /\ pc' = "delay"
            /\ linkChecked' = FALSE
            /\ telOutcome' = "LinkUnavailable"
            /\ UNCHANGED <<telCode, telMessage, telBody>>
  /\ UNCHANGED <<linkUp, shared, updateCount, iter, tick, selfTest,
                 hbOutcome, hbLink, accepted>>

\* sendTelemetryData(), the guard: if (WiFi.status() != WL_CONNECTED) return;
sendTelemetryData_check ==
  /\ pc = "telemetry"
  /\ IF linkUp
       THEN /\ pc' = "post"
            /\ linkChecked' = TRUE
            /\ UNCHANGED telReport
       ELSE /\ pc' = "count"
            /\ linkChecked' = FALSE
            /\ telOutcome' = "LinkUnavailable"
            /\ UNCHANGED <<telCode, telMessage, telBody>>
  /\ UNCHANGED <<linkUp, shared, updateCount, iter, tick, selfTest,
                 hbOutcome, hbLink, accepted>>

\* The branch sendTelemetryData takes on a result code: 201 prints success
\* (and the server's message when the body says success); every other code,
\* positive or not, takes the one else branch, which prints the failure with
\* "HTTP Code" and the body as "Error" (the report of a server rejection).
telemetryBranch(code) ==
  IF code = TelemetryCreated THEN "Accepted" ELSE "RejectedByServer"

\* Mutant: a failed send halts the sketch.
sendTelemetryData_post_aborts ==
  /\ pc = "post"
  /\ \E code \in NetResult, body \in ResponseBodies :
       LET resp == IF code > 0 THEN body ELSE NoBody IN
       /\ telCode' = code
       /\ telOutcome' = telemetryBranch(code)
       /\ telMessage' = IF code = TelemetryCreated /\ resp.success
                          THEN resp.message ELSE ""
       /\ telBody' = IF code = TelemetryCreated THEN "" ELSE resp.raw
       /\ accepted' = (accepted \/ code = TelemetryCreated)
       /\ pc' = IF code = TelemetryCreated THEN "count" ELSE "aborted"
  /\ telPosts' = telPosts + 1
  /\ linkChecked' = FALSE
  /\ UNCHANGED <<linkUp, latitude, longitude, speed, heading, passengerCount, fuelLevel,
                 engineTemp, updateCount, iter, sensorCalls, hbPosts,
                 selfTest, hbOutcome, hbLink>>

\* Mutant: a failed send is attempted again at once.
sendTelemetryData_post_retries ==
  /\ pc = "post"
  /\ \E code \in NetResult, body \in ResponseBodies :
       LET resp == IF code > 0 THEN body ELSE NoBody IN
       /\ telCode' = code
       /\ telOutcome' = telemetryBranch(code)
       /\ telMessage' = IF code = TelemetryCreated /\ resp.success
                          THEN resp.message ELSE ""
       /\ telBody' = IF code = TelemetryCreated THEN "" ELSE resp.raw
       /\ accepted' = (accepted \/ code = TelemetryCreated)
       /\ pc' = IF code = TelemetryCreated THEN "count" ELSE "post"
  /\ telPosts' = telPosts + 1
  /\ linkChecked' = FALSE
  /\ UNCHANGED <<linkUp, latitude, longitude, speed, heading, passengerCount, fuelLevel,
                 engineTemp, updateCount, iter, sensorCalls, hbPosts,
                 selfTest, hbOutcome, hbLink>>

\* Mutant: an accepted send clears the passenger count it reported.
sendTelemetryData_post_clears ==
  /\ pc = "post"
  /\ \E code \in NetResult, body \in ResponseBodies :
       LET resp == IF code > 0 THEN body ELSE NoBody IN
       /\ telCode' = code
       /\ telOutcome' = telemetryBranch(code)
       /\ telMessage' = IF code = TelemetryCreated /\ resp.success
                          THEN resp.message ELSE ""
       /\ telBody' = IF code = TelemetryCreated THEN "" ELSE resp.raw
       /\ accepted' = (accepted \/ code = TelemetryCreated)
       /\ pc' = "count"
       /\ passengerCount' = IF code = TelemetryCreated THEN 0 ELSE passengerCount
  /\ telPosts' = telPosts + 1
  /\ linkChecked' = FALSE
  /\ UNCHANGED <<linkUp, latitude, longitude, speed, heading, fuelLevel,
                 engineTemp, updateCount, iter, sensorCalls, hbPosts,
                 selfTest, hbOutcome, hbLink>>

\* sendTelemetryData(), the POST and the report of its result.
sendTelemetryData_post ==
  /\ pc = "post"
  /\ \E code \in NetResult, body \in ResponseBodies :
       LET resp == IF code > 0 THEN body ELSE NoBody IN
       /\ telCode' = code
       /\ telOutcome' = telemetryBranch(code)
       /\ telMessage' = IF code = TelemetryCreated /\ resp.success
                          THEN resp.message ELSE ""
       /\ telBody' = IF code = TelemetryCreated THEN "" ELSE resp.raw
       /\ accepted' = (accepted \/ code = TelemetryCreated)
       /\ pc' = "count"
  /\ telPosts' = telPosts + 1
  /\ linkChecked' = FALSE
  /\ UNCHANGED <<linkUp, latitude, longitude, speed, heading, passengerCount, fuelLevel,
                 engineTemp, updateCount, iter, sensorCalls, hbPosts,
                 selfTest, hbOutcome, hbLink>>

\* Mutant: the comparison off by one.
heartbeatDue_offByOne(n) == n > HeartbeatEvery

\* loop(): if (++updateCount >= 10) { sendHeartbeat(); updateCount = 0; }
heartbeatDue(n) == n >= HeartbeatEvery

loop_count ==
  /\ pc = "count"
  /\ updateCount' = updateCount + 1
  /\ pc' = IF heartbeatDue(updateCount + 1) THEN "heartbeat" ELSE "delay"
  /\ linkChecked' = FALSE
  /\ UNCHANGED <<linkUp, shared, iter, tick, selfTest, telReport,
                 hbOutcome, hbLink, accepted>>

\* sendHeartbeat() and the reset of the counter that follows it in loop().
sendHeartbeat ==
  /\ pc = "heartbeat"
  /\ \E code \in NetResult :
       hbOutcome' = IF code = HeartbeatOk THEN "Ok" ELSE "Failed"
  /\ hbPosts' = hbPosts + 1
  /\ hbLink' = IF linkUp THEN "up" ELSE "down"
  /\ updateCount' = 0
  /\ pc' = "delay"
  /\ linkChecked' = FALSE
  /\ UNCHANGED <<linkUp, shared, iter, sensorCalls, telPosts, selfTest,
                 telReport, accepted>>

\* delay(10000); loop() returns and is called again.
loop_delay ==
  /\ pc = "delay"
  /\ pc' = "readGPS"
  /\ iter' = IF iter < MaxIter THEN iter + 1 ELSE MaxIter
  /\ sensorCalls' = 0 /\ telPosts' = 0 /\ hbPosts' = 0
  /\ telCode' = 0 /\ telOutcome' = "None" /\ telMessage' = "" /\ telBody' = ""
  /\ hbOutcome' = "None"
  /\ hbLink' = "none"
  /\ linkChecked' = FALSE
  /\ accepted' = (accepted /\ updateCount # 0)
  /\ UNCHANGED <<linkUp, shared, updateCount, selfTest>>

\* One step of the sketch.
Step ==
  \/ setup
  \/ testAPIConnection
  \/ readGPSData
  \/ readSensorData
  \/ sendTelemetryData_check
  \/ sendTelemetryData_post
  \/ loop_count
  \/ sendHeartbeat
  \/ loop_delay

Next == Step \/ LinkChange

Spec == Init /\ [][Next]_vars

\* The processor always runs the sketch's next statement.
FairSpec == Spec /\ WF_vars(Step)

\* ---------------------------------------------------------------- claims
LoopPcs == {"readGPS", "readSensor", "telemetry", "post", "count",
            "heartbeat", "delay"}

\* C1: in an iteration whose telemetry report is LinkUnavailable, neither
\* the sensor readers nor the telemetry POST were invoked.
C1_LinkDownNoSensorNoNetwork ==
  telOutcome = "LinkUnavailable" => (sensorCalls = 0 /\ telPosts = 0)

\* C2: every telemetry POST and every heartbeat POST is the step right after
\* a link-status check that reported link-up.
C2_PostRightAfterLinkCheck ==
  [][(telPosts' = telPosts + 1 \/ hbPosts' = hbPosts + 1) => linkChecked]_vars

\* C3: the heartbeat is sent in iteration k exactly when k is a multiple of
\* 10; updateCount is back at 0 at the end of exactly those iterations and
\* lies in 0..9 at every iteration boundary, never above 10 in between.
C3_HeartbeatEveryTenth ==
  /\ updateCount \in 0..HeartbeatEvery
  /\ pc \in {"delay", "readGPS"} => updateCount \in 0..(HeartbeatEvery - 1)
  /\ (pc = "delay" /\ iter < MaxIter) =>
       /\ hbPosts = (IF iter % HeartbeatEvery = 0 THEN 1 ELSE 0)
       /\ (updateCount = 0) = (iter % HeartbeatEvery = 0)

C3_Witness == pc = "delay" /\ iter = 2 * HeartbeatEvery /\ hbPosts = 1
                /\ updateCount = 0

\* C4: whatever the telemetry and the heartbeat sends of an iteration come
\* to, the loop reaches the inter-tick sleep and then starts the next
\* iteration.
C4_FailedSendNeverStops ==
  /\ (pc \in {"telemetry", "post", "count", "heartbeat"}) ~> (pc = "delay")
  /\ (pc = "delay") ~> (pc = "readGPS")

C4_Witness == pc = "delay" /\ telCode = 401
                /\ telOutcome = "RejectedByServer" /\ hbOutcome = "Failed"

\* C5: an iteration makes at most one telemetry POST and at most one
\* heartbeat POST, whatever their results.
C5_AtMostOnePostPerTick == telPosts \in {0, 1} /\ hbPosts \in {0, 1}

C5_Witness == pc = "delay" /\ telPosts = 1 /\ hbPosts = 1
                /\ telCode = -1 /\ hbOutcome = "Failed"

\* C6: the report of a telemetry POST is Accepted for 201, RejectedByServer
\* (with the raw body) for any other received status, and TransportError
\* when no response was received.
C6_ThreeWayClassification ==
  telPosts = 1 =>
    telOutcome = (CASE telCode = TelemetryCreated -> "Accepted"
                    [] telCode > 0 /\ telCode # TelemetryCreated
                         -> "RejectedByServer"
                    [] OTHER -> "TransportError")

\* C7: fuelLevel is never negative, and once it is 0 it stays 0.
C7_FuelNeverNegative ==
  [][fuelLevel >= 0 /\ fuelLevel' >= 0 /\ (fuelLevel = 0 => fuelLevel' = 0)]_vars

C7_Witness == fuelLevel = 0 /\ iter > MaxFuel + 1 /\ pc = "telemetry"

\* C8: the status self-test is issued once, in setup right after the link
\* was seen up and before any telemetry or heartbeat send; it is not issued
\* from the loop; a positive result code reads as reachable; the loop runs
\* whether the test succeeded or failed.
C8_SelfTestOnceAtStartup ==
  /\ statusGets \in {0, 1}
  /\ pc = "testAPI" => linkChecked
  /\ statusGets = 0 => (iter = 0 /\ telPosts = 0 /\ hbPosts = 0
                          /\ pc \in {"connecting", "testAPI"})
  /\ statusGets = 1 => /\ pc \in LoopPcs
                       /\ iter >= 1
                       /\ apiTest = (IF apiCode > 0 THEN "SUCCESS" ELSE "FAILED")

C8_Witness == pc = "delay" /\ iter > 1 /\ statusGets = 1 /\ apiCode = 401
                /\ apiTest = "SUCCESS" /\ telPosts = 1

\* C9: no step of sendTelemetryData changes latitude, longitude, speed,
\* heading, passengerCount, fuelLevel, engineTemp or updateCount.
C9_TelemetryLeavesStateAlone ==
  [][(pc \in {"telemetry", "post"}) => UNCHANGED <<shared, updateCount>>]_vars

C9_Witness == pc = "count" /\ telOutcome = "Accepted" /\ telMessage = "ok"
                /\ fuelLevel < MaxFuel /\ updateCount > 0
                /\ passengerCount > 0

\* C10: every iteration is counted whatever came of its telemetry send, so
\* the tenth iteration reaches the heartbeat even when no send of the ten
\* was accepted, and the heartbeat POST is made whether the link is up or
\* down.
C10_CadenceCountsIterations ==
  /\ (pc = "count" /\ iter < MaxIter) =>
       updateCount = (iter - 1) % HeartbeatEvery
  /\ (pc = "count" /\ iter < MaxIter /\ iter % HeartbeatEvery = 0) =>
       (ENABLED loop_count) /\ heartbeatDue(updateCount + 1)
  /\ pc = "heartbeat" => ENABLED sendHeartbeat

C10_Witness == hbPosts = 1 /\ hbLink = "down" /\ ~accepted
                 /\ telOutcome = "LinkUnavailable"

====
